---- MODULE Spec2Model ----
(***************************************************************************)
(* The declarative layer rendering engine (RenderEngine), the layer        *)
(* descriptors, the world-state ingestion step and the MapView             *)
(* orchestrator of the HackTheImpossible frontend.                         *)
(*                                                                         *)
(* Coordinates are integers in units of 1e-4 degree, the battery is a      *)
(* percentage and a path parameter i/n is the pair <<i, n>>.               *)
(***************************************************************************)
EXTENDS Integers, Sequences, FiniteSets, TLC

(***************************************************************************)
(* Bounds of the model.                                                    *)
(***************************************************************************)
\* drones of the initial world (the code creates 20)
InitCount == 1
\* drones of one ingested snapshot
MaxDrones == 2
\* registerLayer calls on one engine
MaxLayers == 2
\* sample worlds handed to setWorldState by a caller of the engine
NumWorlds == 1
\* requests (polls and patrol-area posts) one mounted component issues
MaxRequests == 2
\* drones of a simulated formation
FormationSize == 3
\* seconds of simulation time a run accumulates
MaxElapsed == 6
\* times the effects of one component are mounted
MaxMounts == 2

(***************************************************************************)
(* types.ts                                                                *)
(***************************************************************************)
DroneSide == {"friendly", "enemy"}

DroneMode == {"PATROL", "RETURNING"}

LayerKind == {"point", "polygon"}

BackendMode ==
  {"PATROL", "RETURNING", "IDLE_AT_BASE", "TRANSIT_TO_AREA", "CHARGING", "LOST"}

(***************************************************************************)
(* worldState.ts: createInitialWorldState.  Math.random is a draw from     *)
(* OffsetSamples, (Math.random() - 0.5) * 0.01 lying in [-50, 50); the two *)
(* draws made for one drone are a pair of OffsetPairs.                     *)
(***************************************************************************)
BaseLng == 363694
BaseLat == 475931
DefaultRangeKm == 10

OffsetSamples == {-50, 49}

OffsetPairs == {off \in OffsetSamples \X OffsetSamples : off[1] # off[2]}

\* the id `drone-${id}` is kept as the number id
makeDrone(id, position, side, pathParam) ==
  [id |-> id, position |-> position, side |-> side, pathParam |-> pathParam,
   battery |-> 100, mode |-> "PATROL", offset |-> 0, exploration |-> 0]

\* the body of createInitialWorldState for a given count; offs[i + 1] is the
\* pair of offsets drawn for drone i
createFormation(count, offs) ==
  [drones |->
     [k \in 1..count |->
        makeDrone(k - 1,
                  <<BaseLng + offs[k][1], BaseLat + offs[k][2]>>,
                  IF (k - 1) % 2 = 0 THEN "friendly" ELSE "enemy",
                  <<k - 1, count>>)],
   homeBase |-> [id |-> "base-1", position |-> <<BaseLng, BaseLat>>,
                 rangeKm |-> DefaultRangeKm]]

createInitialWorldState(offs) == createFormation(InitCount, offs)

InitialWorlds ==
  {createInitialWorldState(offs) :
     offs \in [1..InitCount -> OffsetPairs]}

(***************************************************************************)
(* MapView.tsx: the ingestion step.                                        *)
(***************************************************************************)
mapMode_Identity(m) == m

mapMode(m) == IF m = "PATROL" \/ m = "RETURNING" THEN m ELSE "PATROL"

\* a property whose value is undefined is a field the record does not have:
\* to: obj[from] of an object literal
prop(to, obj, from) == IF from \in DOMAIN obj THEN to :> obj[from] ELSE <<>>

\* d.mode, the string "undefined" standing for the value undefined
modeOf(d) == IF "mode" \in DOMAIN d THEN d.mode ELSE "undefined"

\* the object literal of dto.drones.map; it has no exploration property
ingestDrone(d) ==
  prop("id", d, "id") @@ prop("side", d, "side")
    @@ prop("pathParam", d, "path_param") @@ prop("battery", d, "battery")
    @@ [mode |-> mapMode(modeOf(d)),
        position |-> <<d.position.lng, d.position.lat>>, offset |-> 0]

\* dtoToWorldState throws a TypeError: it reads a property of undefined
ingestionThrows(dto) ==
  \/ "drones" \notin DOMAIN dto
  \/ \E i \in 1..Len(dto.drones) : "position" \notin DOMAIN dto.drones[i]
  \/ "home_base" \notin DOMAIN dto
  \/ "position" \notin DOMAIN dto.home_base

dtoToWorldState(dto) ==
  [drones |-> [i \in 1..Len(dto.drones) |-> ingestDrone(dto.drones[i])],
   homeBase |-> prop("id", dto.home_base, "id")
                  @@ [position |-> <<dto.home_base.position.lng,
                                     dto.home_base.position.lat>>]]

(***************************************************************************)
(* The snapshots the backend may answer with: one sample drone per backend *)
(* mode, a snapshot holding up to MaxDrones of them that follow each other *)
(* cyclically from a first one; snapshots with another home base, with     *)
(* an event, without the events list, with a drone that lacks one of its   *)
(* fields, without the drone list and without the home base.               *)
(***************************************************************************)
BackendModeSeq ==
  <<"PATROL", "RETURNING", "IDLE_AT_BASE", "TRANSIT_TO_AREA", "CHARGING", "LOST">>

\* drone ids are numbers here too: i stands for the string the backend sends
SampleDroneDTO(i) ==
  [id |-> i, side |-> IF i % 2 = 0 THEN "friendly" ELSE "enemy",
   path_param |-> <<i - 1, Len(BackendModeSeq)>>, battery |-> 100 - 15 * i,
   mode |-> BackendModeSeq[i],
   position |-> [lng |-> BaseLng + 10 * i, lat |-> BaseLat - 7 * i]]

DroneDTOs == {SampleDroneDTO(i) : i \in 1..Len(BackendModeSeq)}

HomeBaseDTOs ==
  {[id |-> "base-1", position |-> [lng |-> BaseLng, lat |-> BaseLat]],
   [id |-> "base-2", position |-> [lng |-> BaseLng + 100, lat |-> BaseLat + 100]]}

Snapshot(n, first, hb) ==
  [drones |-> [i \in 1..n |->
                 SampleDroneDTO(((first + i - 2) % Len(BackendModeSeq)) + 1)],
   home_base |-> hb, events |-> <<>>]

HomeBaseDTO(id) == CHOOSE hb \in HomeBaseDTOs : hb.id = id

\* no drone, one drone, lists of MaxDrones drones that between them have
\* every mode, one drone at the other home base
WellFormedDTOs ==
  {Snapshot(n, 1, HomeBaseDTO("base-1")) : n \in 0..1}
    \cup {Snapshot(MaxDrones, first, HomeBaseDTO("base-1")) : first \in {2, 4, 6}}
    \cup {Snapshot(1, 1, HomeBaseDTO("base-2"))}

\* event ids are numbers too; the backend numbers its events in the order
\* it reports them first
EventDTO(k) ==
  [id |-> k, drone_id |-> ((k + 1) % 2) + 1,
   type |-> IF k % 2 = 1 THEN "LOST" ELSE "SUSPICIOUS",
   position |-> [lng |-> BaseLng + k, lat |-> BaseLat], message |-> "event",
   timestamp |-> k]

\* the object obj without its property f
Without(obj, f) == [k \in DOMAIN obj \ {f} |-> obj[k]]

DroneDTOFields == {"id", "side", "path_param", "battery", "mode", "position"}

BaseSnapshot == Snapshot(1, 1, HomeBaseDTO("base-1"))

\* a complete drone followed by one that lacks the field f
MalformedDroneDTOs ==
  {[BaseSnapshot EXCEPT !.drones = Append(@, Without(SampleDroneDTO(2), f))] :
     f \in DroneDTOFields}

WorldStateDTOs ==
  WellFormedDTOs \cup MalformedDroneDTOs
    \cup {Without(BaseSnapshot, "events"), Without(BaseSnapshot, "drones"),
          Without(BaseSnapshot, "home_base")}

(***************************************************************************)
(* dronesLayer.ts, homeBaseLayer.ts, rangeCircleLayer.ts: the descriptors. *)
(***************************************************************************)
FeatureCollection(features) == [type |-> "FeatureCollection", features |-> features]

EmptyCollection == FeatureCollection(<<>>)

createDronesLayerDescriptor ==
  [id |-> "drones", sourceId |-> "drones-source", layerId |-> "drones-layer",
   kind |-> "point", minZoom |-> 3, maxZoom |-> 22]

createHomeBaseLayerDescriptor ==
  [id |-> "home-base", sourceId |-> "home-base-source",
   layerId |-> "home-base-layer", kind |-> "point", minZoom |-> 3, maxZoom |-> 22]

createRangeCircleLayerDescriptor ==
  [id |-> "home-base-range", sourceId |-> "home-base-range-source",
   layerId |-> "home-base-range-layer", kind |-> "polygon",
   minZoom |-> 3, maxZoom |-> 22]

Descriptors ==
  {createDronesLayerDescriptor, createHomeBaseLayerDescriptor,
   createRangeCircleLayerDescriptor}

\* a world without home base (the first version of the world state)
NoHomeBase == [id |-> "", position |-> <<>>]

hasHomeBase(world) == world.homeBase # NoHomeBase

dronesDataSelector_Reversed(world) ==
  FeatureCollection(
    [i \in 1..Len(world.drones) |->
       LET drone == world.drones[Len(world.drones) + 1 - i]
       IN [type |-> "Feature",
           properties |-> prop("id", drone, "id") @@ prop("side", drone, "side"),
           geometry |-> [type |-> "Point", coordinates |-> drone.position]]])

dronesDataSelector(world) ==
  FeatureCollection(
    [i \in 1..Len(world.drones) |->
       [type |-> "Feature",
        properties |-> prop("id", world.drones[i], "id")
                         @@ prop("side", world.drones[i], "side"),
        geometry |-> [type |-> "Point",
                      coordinates |-> world.drones[i].position]]])

homeBaseDataSelector(world) ==
  IF ~hasHomeBase(world) THEN EmptyCollection
  ELSE FeatureCollection(
         <<[type |-> "Feature", properties |-> [kind |-> "home-base"],
            geometry |-> [type |-> "Point",
                          coordinates |-> world.homeBase.position]]>>)

\* turf.circle(center, radiusKm, {steps: 128}) is kept as its arguments
rangeCircleDataSelector(world) ==
  IF ~hasHomeBase(world) THEN EmptyCollection
  ELSE FeatureCollection(
         <<[type |-> "Feature",
            geometry |->
              [type |-> "Polygon",
               circle |->
                 [center |-> world.homeBase.position,
                  radiusKm |-> IF "rangeKm" \in DOMAIN world.homeBase
                               THEN world.homeBase.rangeKm ELSE DefaultRangeKm,
                  steps |-> 128]]]>>)

dataSelector(descriptor, world) ==
  CASE descriptor.id = "drones" -> dronesDataSelector(world)
    [] descriptor.id = "home-base" -> homeBaseDataSelector(world)
    [] descriptor.id = "home-base-range" -> rangeCircleDataSelector(world)

(***************************************************************************)
(* renderEngine.ts: RenderEngine over the map it is given.  An engine with *)
(* its map is the record S:                                                *)
(*   world, layers, initializedSources, initializedLayers  the engine      *)
(*   sources      source id -> the data the map holds for it               *)
(*   styleLayers  layer id -> the layer specification added to the map     *)
(*   zoom         map.getZoom()                                            *)
(*   addSourceLog, addLayerLog  the ids of all addSource / addLayer calls  *)
(*   setDataLog   the setData calls of the running call, in order          *)
(*   selectorLog  the descriptors whose dataSelector the running call ran  *)
(***************************************************************************)
InitialZoom == 11

\* zoom levels a view context may carry: below minZoom, the initial one
Zooms == {2, InitialZoom}

NewRenderEngine(initialWorld) ==
  [world |-> initialWorld, layers |-> <<>>,
   initializedSources |-> {}, initializedLayers |-> {},
   sources |-> <<>>, styleLayers |-> <<>>, zoom |-> InitialZoom,
   addSourceLog |-> <<>>, addLayerLog |-> <<>>,
   setDataLog |-> <<>>, selectorLog |-> <<>>]

addSource(S, sourceId, data) ==
  [S EXCEPT !.sources = (sourceId :> data) @@ @,
            !.addSourceLog = Append(@, sourceId)]

addLayer(S, layer) ==
  [S EXCEPT !.styleLayers = (layer.id :> layer) @@ @,
            !.addLayerLog = Append(@, layer.id)]

getSource(S, sourceId) == sourceId \in DOMAIN S.sources

setData(S, sourceId, fc) ==
  [S EXCEPT !.sources[sourceId] = fc,
            !.setDataLog = Append(@, [sourceId |-> sourceId, data |-> fc])]

\* the drawing surface loses a source and the layers drawn from it
removeSource(S, sourceId) ==
  [S EXCEPT
     !.sources = [k \in DOMAIN @ \ {sourceId} |-> @[k]],
     !.styleLayers = [k \in {l \in DOMAIN @ : @[l].source # sourceId} |-> @[k]]]

layerSpecification(descriptor, type) ==
  [id |-> descriptor.layerId, type |-> type, source |-> descriptor.sourceId,
   minzoom |-> descriptor.minZoom, maxzoom |-> descriptor.maxZoom]

ensureSource_Always(S, descriptor) ==
  [addSource(S, descriptor.sourceId, EmptyCollection)
     EXCEPT !.initializedSources = @ \cup {descriptor.sourceId}]

ensureSource(S, descriptor) ==
  IF descriptor.sourceId \notin S.initializedSources
  THEN [addSource(S, descriptor.sourceId, EmptyCollection)
          EXCEPT !.initializedSources = @ \cup {descriptor.sourceId}]
  ELSE S

\* the first version of the engine: only point layers are added
ensureLayer_PointOnly(S, descriptor) ==
  IF descriptor.layerId \notin S.initializedLayers
  THEN LET S1 == IF descriptor.kind = "point"
                 THEN addLayer(S, layerSpecification(descriptor, "circle"))
                 ELSE S
       IN [S1 EXCEPT !.initializedLayers = @ \cup {descriptor.layerId}]
  ELSE S

ensureLayer(S, descriptor) ==
  IF descriptor.layerId \notin S.initializedLayers
  THEN LET S1 == IF descriptor.kind = "point"
                 THEN addLayer(S, layerSpecification(descriptor, "circle"))
                 ELSE IF descriptor.kind = "polygon"
                      THEN addLayer(S, layerSpecification(descriptor, "fill"))
                      ELSE S
       IN [S1 EXCEPT !.initializedLayers = @ \cup {descriptor.layerId}]
  ELSE S

ensureSourceAndLayer(S, descriptor) == ensureLayer(ensureSource(S, descriptor), descriptor)

updateLayer_ZoomGated(S, descriptor, view) ==
  IF ~getSource(S, descriptor.sourceId) THEN S
  ELSE IF view.zoom < descriptor.minZoom \/ view.zoom > descriptor.maxZoom THEN S
  ELSE LET fc == dataSelector(descriptor, S.world)
       IN setData([S EXCEPT !.selectorLog = Append(@, descriptor.id)],
                  descriptor.sourceId, fc)

updateLayer_Accumulate(S, descriptor, view) ==
  IF ~getSource(S, descriptor.sourceId) THEN S
  ELSE LET fc == dataSelector(descriptor, S.world)
           old == S.sources[descriptor.sourceId]
       IN setData([S EXCEPT !.selectorLog = Append(@, descriptor.id)],
                  descriptor.sourceId,
                  FeatureCollection(old.features \o fc.features))

updateLayer_DrainsWorld(S, descriptor, view) ==
  IF ~getSource(S, descriptor.sourceId) THEN S
  ELSE LET fc == dataSelector(descriptor, S.world)
           S1 == [S EXCEPT !.selectorLog = Append(@, descriptor.id),
                           !.world.drones = <<>>]
       IN setData(S1, descriptor.sourceId, fc)

updateLayer(S, descriptor, view) ==
  IF ~getSource(S, descriptor.sourceId) THEN S
  ELSE LET fc == dataSelector(descriptor, S.world)
       IN setData([S EXCEPT !.selectorLog = Append(@, descriptor.id)],
                  descriptor.sourceId, fc)

RECURSIVE updateFrom_StopAtMissing(_, _, _)
updateFrom_StopAtMissing(S, i, view) ==
  IF i > Len(S.layers) THEN S
  ELSE IF ~getSource(S, S.layers[i].sourceId) THEN S
  ELSE updateFrom_StopAtMissing(updateLayer(S, S.layers[i], view), i + 1, view)

RECURSIVE updateFrom(_, _, _)
\* the for loop of update, from the i-th registered descriptor on
updateFrom(S, i, view) ==
  IF i > Len(S.layers) THEN S
  ELSE updateFrom(updateLayer(S, S.layers[i], view), i + 1, view)

update(S, view) == updateFrom(S, 1, view)

setWorldState_Eager(S, world) ==
  update([S EXCEPT !.world = world], [zoom |-> S.zoom])

setWorldState(S, world) == [S EXCEPT !.world = world]

registerLayer_NoPush(S, descriptor) ==
  ensureSourceAndLayer([S EXCEPT !.layers = Append(@, descriptor)], descriptor)

registerLayer_Dedup(S, descriptor) ==
  LET known == \E i \in 1..Len(S.layers) : S.layers[i].layerId = descriptor.layerId
      S1 == IF known THEN S ELSE [S EXCEPT !.layers = Append(@, descriptor)]
      S2 == ensureSourceAndLayer(S1, descriptor)
  IN updateLayer(S2, descriptor, [zoom |-> S2.zoom])

registerLayer(S, descriptor) ==
  LET S1 == [S EXCEPT !.layers = Append(@, descriptor)]
      S2 == ensureSourceAndLayer(S1, descriptor)
  IN updateLayer(S2, descriptor, [zoom |-> S2.zoom])

(***************************************************************************)
(* The state: the engine and its map (the fields of S), the call a caller  *)
(* of the engine made last, and the MapView component.                     *)
(***************************************************************************)
VARIABLES world, layers, initializedSources, initializedLayers,
          sources, styleLayers, zoom,
          addSourceLog, addLayerLog, setDataLog, selectorLog,
          lastCall,
          phase, mapRef, engineRef, worldRef, pollingRef,
          inflight, issued, received, ui,
          selectedDroneIdRef, holder, timers, backend,
          sim

engineVars ==
  <<world, layers, initializedSources, initializedLayers, sources, styleLayers,
    zoom, addSourceLog, addLayerLog, setDataLog, selectorLog>>

\* MapView: phase is "unmounted", "mounted" or "cleaned"; mapRef and engineRef
\* tell whether the ref holds a map, an engine; pollingRef is the interval id
\* the ref holds (0: null) and timers the ids of the intervals that are set;
\* inflight are the requests awaiting their response, issued the number of
\* requests sent, received the snapshot the last completed handler was given,
\* holder the request whose snapshot worldRef holds (0: the initial world);
\* ui is the React state: the events list, the event log, the selection and
\* whether rendering threw; backend names the snapshots the backend answers
\* with
appVars ==
  <<phase, mapRef, engineRef, worldRef, pollingRef, inflight, issued, received,
    ui, selectedDroneIdRef, holder, timers, backend>>

\* the state the formation simulation carries from tick to tick
simVars == <<sim>>

vars == <<engineVars, lastCall, appVars, simVars>>

\* the engine and its map as they are now, the logs of the last call cleared
Cur ==
  [world |-> world, layers |-> layers,
   initializedSources |-> initializedSources,
   initializedLayers |-> initializedLayers,
   sources |-> sources, styleLayers |-> styleLayers, zoom |-> zoom,
   addSourceLog |-> addSourceLog, addLayerLog |-> addLayerLog,
   setDataLog |-> <<>>, selectorLog |-> <<>>]

Becomes(S) ==
  /\ world' = S.world
  /\ layers' = S.layers
  /\ initializedSources' = S.initializedSources
  /\ initializedLayers' = S.initializedLayers
  /\ sources' = S.sources
  /\ styleLayers' = S.styleLayers
  /\ zoom' = S.zoom
  /\ addSourceLog' = S.addSourceLog
  /\ addLayerLog' = S.addLayerLog
  /\ setDataLog' = S.setDataLog
  /\ selectorLog' = S.selectorLog

\* the engine and its map are S, its logs included
Is(S) ==
  /\ world = S.world
  /\ layers = S.layers
  /\ initializedSources = S.initializedSources
  /\ initializedLayers = S.initializedLayers
  /\ sources = S.sources
  /\ styleLayers = S.styleLayers
  /\ zoom = S.zoom
  /\ addSourceLog = S.addSourceLog
  /\ addLayerLog = S.addLayerLog
  /\ setDataLog = S.setDataLog
  /\ selectorLog = S.selectorLog

\* a call of the engine: its arguments and the call before it
Call(op, descriptor, w, z) ==
  [op |-> op, descriptor |-> descriptor, world |-> w, zoom |-> z,
   prev |-> lastCall.op]

NoDescriptor == [id |-> "", sourceId |-> "", layerId |-> "", kind |-> "",
                 minZoom |-> 0, maxZoom |-> 0]

\* the worlds a caller of the engine hands to setWorldState
SampleSnapshot(k) ==
  Snapshot(k % (MaxDrones + 1), ((k + 1) % Len(BackendModeSeq)) + 1,
           [id |-> "base-2",
            position |-> [lng |-> BaseLng + 100 * k, lat |-> BaseLat + 100 * k]])

SampleWorlds == {dtoToWorldState(SampleSnapshot(k)) : k \in 1..NumWorlds}

\* null of selectedDrone
Null == [null |-> TRUE]

\* null of selectedDroneId and selectedDroneIdRef.current
NoId == -1

\* the useState calls: events and eventLog [], the selection null
InitialUi ==
  [crashed |-> FALSE, events |-> <<>>, eventLog |-> <<>>,
   selectedDroneId |-> NoId, selectedDrone |-> Null]

\* no patrol path: no vertex
NoPath == <<>>

\* the formation simulation before its first tick: leaderParam in units of
\* 1/LoopUnits of the loop, elapsed in seconds, the path with the segment
\* lengths and the total length cached alongside it, removed the ids of the
\* drones attrition took, formed the number of drones the formation started
\* with
NoSimulation == [leaderParam |-> 0, elapsed |-> 0, attritionApplied |-> FALSE,
                 path |-> NoPath, segmentLengths |-> <<>>, totalLength |-> 0,
                 removed |-> <<>>, formed |-> 0]

NoSnapshot ==
  [drones |-> <<>>, home_base |-> [id |-> "", position |-> [lng |-> 0, lat |-> 0]],
   events |-> <<>>]

Init ==
  /\ \E w \in InitialWorlds : Is(NewRenderEngine(w))
  /\ lastCall = [op |-> "new", descriptor |-> NoDescriptor, world |-> world,
                 zoom |-> InitialZoom, prev |-> ""]
  /\ phase = "unmounted" /\ mapRef = TRUE /\ engineRef = TRUE /\ worldRef = world
  /\ pollingRef = 0 /\ inflight = {} /\ issued = 0 /\ received = NoSnapshot
  /\ ui = InitialUi /\ selectedDroneIdRef = NoId /\ holder = 0 /\ timers = {}
  /\ backend = "none" /\ sim = NoSimulation

RegisterLayer ==
  \E d \in Descriptors :
    /\ Len(layers) < MaxLayers
    /\ Becomes(registerLayer(Cur, d))
    /\ lastCall' = Call("registerLayer", d, world, zoom)
    /\ UNCHANGED <<appVars, simVars>>

SetWorldState ==
  \E w \in SampleWorlds :
    /\ Becomes(setWorldState(Cur, w))
    /\ lastCall' = Call("setWorldState", NoDescriptor, w, zoom)
    /\ UNCHANGED <<appVars, simVars>>

Update ==
  \E z \in Zooms :
    /\ Becomes(update(Cur, [zoom |-> z]))
    /\ lastCall' = Call("update", NoDescriptor, world, z)
    /\ UNCHANGED <<appVars, simVars>>

Next == RegisterLayer \/ SetWorldState \/ Update

\* a caller driving one engine over a map that keeps its sources
Spec == Init /\ [][Next]_vars

\* the map loses one of its sources under the engine
RemoveSource ==
  \E s \in DOMAIN sources :
    /\ Becomes(removeSource(Cur, s))
    /\ lastCall' = Call("removeSource", NoDescriptor, world, zoom)
    /\ UNCHANGED <<appVars, simVars>>

NextTeardown == Next \/ RemoveSource

\* the same caller over a map that may lose sources
SpecTeardown == Init /\ [][NextTeardown]_vars

(***************************************************************************)
(* MapView.tsx: the component that owns the map, the engine and the world  *)
(* reference, polls the backend and posts the drawn patrol area.  Every    *)
(* action is one run of a callback up to its next await.                   *)
(***************************************************************************)
NumActive == 10

Vertex(i) == <<BaseLng + 10 * i, BaseLat - 10 * i>>

\* the features draw.getAll() may hold first: a line, rings of 3, 4 and 5
\* coordinates, the last one repeating the first
DrawnFeatures ==
  {[type |-> "LineString", ring |-> <<Vertex(1), Vertex(2)>>],
   [type |-> "Polygon", ring |-> <<Vertex(1), Vertex(2), Vertex(1)>>],
   [type |-> "Polygon", ring |-> <<Vertex(1), Vertex(2), Vertex(3), Vertex(1)>>],
   [type |-> "Polygon",
    ring |-> <<Vertex(1), Vertex(2), Vertex(3), Vertex(4), Vertex(1)>>]}

\* d.features of draw.getAll(): no feature or one
FeatureLists == {<<>>} \cup {<<f>> : f \in DrawnFeatures}

DrawEvents == {"draw.create", "draw.update", "draw.delete"}

NoBody == [polygon |-> <<>>, num_active |-> 0]

Request(id, kind, pc, body) == [id |-> id, kind |-> kind, pc |-> pc, body |-> body]

\* the checks of handleDrawChange before it builds the path
drawGuard(features) ==
  /\ Len(features) # 0
  /\ features[1].type = "Polygon"
  /\ ~(Len(features[1].ring) < 4)

patrolPath_KeepsClosing(coords) ==
  [i \in 1..Len(coords) |-> <<coords[i][1], coords[i][2]>>]

\* coords.slice(0, -1).map((c) => [c[0], c[1]])
patrolPath(coords) ==
  [i \in 1..(Len(coords) - 1) |-> <<coords[i][1], coords[i][2]>>]

\* the body sendPolygon posts
patrolBody(path) ==
  [polygon |-> [i \in 1..Len(path) |-> [lng |-> path[i][1], lat |-> path[i][2]]],
   num_active |-> NumActive]

\* the three sources and layers the load handler adds to the map itself
OwnSources == {"selected-drone", "suspicious-events", "lost-events"}

RECURSIVE addOwnSources(_, _)
addOwnSources(S, ids) ==
  IF ids = {} THEN S
  ELSE LET id == CHOOSE x \in ids : TRUE
           S1 == [S EXCEPT !.sources = (id :> EmptyCollection) @@ @,
                           !.styleLayers =
                              ((id \o "-layer") :>
                                 [id |-> id \o "-layer", type |-> "circle",
                                  source |-> id])
                              @@ @]
       IN addOwnSources(S1, ids \ {id})

\* a callback of the component that ran last
Ran(op, w, z) ==
  [op |-> op, descriptor |-> NoDescriptor, world |-> w, zoom |-> z, prev |-> ""]

\* a response handler that ran to its end; rendered: it called the engine,
\* prev: the callback before it was a request that failed
Handled(op, w, z, rendered) ==
  [op |-> op, descriptor |-> NoDescriptor, world |-> w, zoom |-> z,
   prev |-> IF lastCall.op = "failed" THEN "failed" ELSE "",
   rendered |-> rendered]

\* handleDrawChange ran, draw.getAll() holding features
Drew(features, w, z) ==
  [op |-> "draw", descriptor |-> NoDescriptor, world |-> w, zoom |-> z,
   prev |-> "", features |-> features]

\* while engineRef holds no engine, the engine's fields are those of the
\* engine the load handler would construct
NoEngine(w, z) == [NewRenderEngine(w) EXCEPT !.zoom = z]

\* setWorldState and update as both response handlers call them
renderSnapshot_UpdateFirst(S, newWorld, view) ==
  setWorldState(update(S, view), newWorld)

renderSnapshot(S, newWorld, view) == update(setWorldState(S, newWorld), view)

pollGuard_Unchecked(engine, map) == TRUE

\* if (engine && map) of poll
pollGuard(engine, map) == engine /\ map

\* if (engine) of sendPolygon
patrolGuard(engine, map) == engine

handleSnapshot_StoresFirst(ref, S, dto, live, view) ==
  IF ingestionThrows(dto)
  THEN [worldRef |-> [drones |-> <<>>, homeBase |-> NoHomeBase], engine |-> S,
        rendered |-> FALSE, threw |-> TRUE]
  ELSE LET newWorld == dtoToWorldState(dto)
       IN [worldRef |-> newWorld,
           engine |-> IF live THEN renderSnapshot(S, newWorld, view) ELSE S,
           rendered |-> live, threw |-> FALSE]

\* a handler from `const dto = await res.json()` to the engine calls: ref is
\* worldRef.current, S the engine, live the handler's check of the refs
handleSnapshot(ref, S, dto, live, view) ==
  IF ingestionThrows(dto)
  THEN [worldRef |-> ref, engine |-> S, rendered |-> FALSE, threw |-> TRUE]
  ELSE LET newWorld == dtoToWorldState(dto)
       IN [worldRef |-> newWorld,
           engine |-> IF live THEN renderSnapshot(S, newWorld, view) ELSE S,
           rendered |-> live, threw |-> FALSE]

\* setEvents(dto.events): the React state after it
setEvents(state, dto) ==
  [k \in DOMAIN state \ {"events"} |-> state[k]] @@ prop("events", dto, "events")

LogLimit == 30

\* the updater given to setEventLog: prev with the events not seen before
\* appended, cut to its last LogLimit entries
mergeEventLog(prev, events) ==
  LET seen == {prev[i].id : i \in 1..Len(prev)}
      newOnes == SelectSeq(events, LAMBDA e : e.id \notin seen)
      merged == prev \o newOnes
  IN IF Len(merged) <= LogLimit THEN merged
     ELSE SubSeq(merged, Len(merged) - LogLimit + 1, Len(merged))

\* setEventLog(updater): without dto.events the updater throws when React
\* runs it, which renderThrows covers
setEventLog(state, dto) ==
  IF "events" \in DOMAIN dto
  THEN [state EXCEPT !.eventLog = mergeEventLog(@, dto.events)]
  ELSE state

\* rendering throws: events.filter and dto.events.filter read undefined
renderThrows(state) == "events" \notin DOMAIN state

\* world.drones.find((d) => d.id === id) || null
findDrone(w, id) ==
  LET hits == {i \in 1..Len(w.drones) :
                 "id" \in DOMAIN w.drones[i] /\ w.drones[i].id = id}
  IN IF hits = {} THEN Null
     ELSE w.drones[CHOOSE i \in hits : \A j \in hits : i <= j]

\* updateHighlight(drone) on the map of S; map: mapRef.current is a map
updateHighlight(S, map, drone) ==
  IF ~map \/ ~getSource(S, "selected-drone") THEN S
  ELSE IF drone = Null THEN setData(S, "selected-drone", EmptyCollection)
  ELSE setData(S, "selected-drone",
               FeatureCollection(
                 <<[type |-> "Feature", properties |-> [id |-> drone.id],
                    geometry |-> [type |-> "Point",
                                  coordinates |-> drone.position]]>>))

\* the selection refresh that ends a response handler: ref is
\* selectedDroneIdRef.current; sendPolygon has no else branch
refreshSelection(op, ref, state, S, map, newWorld) ==
  LET fresh == findDrone(newWorld, ref)
  IN IF ref # NoId
     THEN [ui |-> [state EXCEPT !.selectedDrone = fresh],
           engine |-> updateHighlight(S, map, fresh)]
     ELSE [ui |-> state,
           engine |-> IF op = "poll" THEN updateHighlight(S, map, Null) ELSE S]

\* window.setInterval and window.clearInterval on the set of active timers
setInterval(ts, id) == ts \cup {id}

clearInterval_Forgets(ts, id) == ts

clearInterval(ts, id) == ts \ {id}

\* the snapshots an operator's session sees: two drones; the first drone
\* alone, moved, with two events; the second drone alone; the first drone
\* with one event more than the log keeps
SessionDTOs ==
  {Snapshot(2, 1, HomeBaseDTO("base-1")),
   [BaseSnapshot EXCEPT !.drones[1].position.lng = @ + 5,
                        !.events = <<EventDTO(1), EventDTO(2)>>],
   Snapshot(1, 2, HomeBaseDTO("base-1")),
   [BaseSnapshot EXCEPT !.events = [k \in 1..(LogLimit + 1) |-> EventDTO(k)]]}

\* the snapshots a component sees whose effects are run again: one drone,
\* two drones, one drone without the events list
LifecycleDTOs ==
  {BaseSnapshot, Snapshot(2, 1, HomeBaseDTO("base-1")),
   Without(BaseSnapshot, "events")}

\* the bodies res.json() may resolve with
Responses ==
  CASE backend = "session" -> SessionDTOs
    [] backend = "lifecycle" -> LifecycleDTOs
    [] OTHER -> WorldStateDTOs

InitApp ==
  /\ \E w \in InitialWorlds :
       /\ worldRef = w
       /\ Is(NewRenderEngine(w))
       /\ lastCall = [op |-> "new", descriptor |-> NoDescriptor, world |-> w,
                      zoom |-> InitialZoom, prev |-> ""]
  /\ phase = "unmounted" /\ mapRef = FALSE /\ engineRef = FALSE
  /\ pollingRef = 0 /\ inflight = {} /\ issued = 0 /\ received = NoSnapshot
  /\ ui = InitialUi /\ selectedDroneIdRef = NoId /\ holder = 0 /\ timers = {}
  /\ backend = "any" /\ sim = NoSimulation

\* the effects run: the map is created, the interval set and its id stored,
\* the first poll sent
RunEffects ==
  /\ phase' = "mounted" /\ mapRef' = TRUE
  /\ pollingRef' = pollingRef + 1
  /\ timers' = setInterval(timers, pollingRef + 1)
  /\ inflight' = inflight \cup {Request(issued + 1, "poll", "fetch", NoBody)}
  /\ issued' = issued + 1
  /\ UNCHANGED <<engineRef, worldRef, received, ui, selectedDroneIdRef, holder,
                 backend, sim>>

Mount ==
  /\ phase = "unmounted"
  /\ RunEffects
  /\ lastCall' = Ran("mount", world, zoom)
  /\ UNCHANGED engineVars

loadEngine_InitialWorld(ref, z) ==
  LET S0 == [NewRenderEngine(CHOOSE w \in InitialWorlds : TRUE) EXCEPT !.zoom = z]
      S1 == registerLayer(S0, createDronesLayerDescriptor)
      S2 == update(S1, [zoom |-> S1.zoom])
  IN addOwnSources(S2, OwnSources)

\* the load handler: the engine over worldRef.current, its drones layer, the
\* first update, the component's own sources and layers
loadEngine(ref, z) ==
  LET S0 == [NewRenderEngine(ref) EXCEPT !.zoom = z]
      S1 == registerLayer(S0, createDronesLayerDescriptor)
      S2 == update(S1, [zoom |-> S1.zoom])
  IN addOwnSources(S2, OwnSources)

\* map.on("load"): the engine is created on the current world reference
MapLoad ==
  /\ mapRef /\ ~engineRef
  /\ Becomes(loadEngine(worldRef, zoom))
  /\ engineRef' = TRUE
  /\ lastCall' = Ran("load", worldRef, zoom)
  /\ UNCHANGED <<phase, mapRef, worldRef, pollingRef, inflight, issued, received,
                 ui, selectedDroneIdRef, holder, timers, backend, sim>>

\* the interval timer fires: poll() runs up to its fetch
PollTick ==
  /\ timers # {} /\ issued < MaxRequests
  /\ inflight' = inflight \cup {Request(issued + 1, "poll", "fetch", NoBody)}
  /\ issued' = issued + 1
  /\ lastCall' = Ran("tick", world, zoom)
  /\ UNCHANGED <<engineVars, phase, mapRef, engineRef, worldRef, pollingRef,
                 received, ui, selectedDroneIdRef, holder, timers, backend, sim>>

\* draw.create, draw.update, draw.delete: handleDrawChange up to the fetch;
\* after a creation or an update draw.getAll() holds a feature
HandleDrawChange ==
  \E event \in DrawEvents, features \in FeatureLists :
    /\ mapRef /\ issued < MaxRequests
    /\ event \in {"draw.create", "draw.update"} => features # <<>>
    /\ IF ~drawGuard(features)
       THEN UNCHANGED <<inflight, issued>>
       ELSE /\ inflight' = inflight \cup
                 {Request(issued + 1, "patrol", "fetch",
                          patrolBody(patrolPath(features[1].ring)))}
            /\ issued' = issued + 1
    /\ lastCall' = Drew(features, world, zoom)
    /\ UNCHANGED <<engineVars, phase, mapRef, engineRef, worldRef, pollingRef,
                   received, ui, selectedDroneIdRef, holder, timers, backend, sim>>

\* the fetch settles: with an OK response the handler goes on to res.json(),
\* otherwise (not OK, or the fetch rejected) it ends
FetchSettles ==
  \E r \in inflight, ok \in BOOLEAN :
    /\ r.pc = "fetch"
    /\ inflight' = IF ok THEN (inflight \ {r}) \cup {[r EXCEPT !.pc = "json"]}
                   ELSE inflight \ {r}
    /\ lastCall' = Ran(IF ok THEN "response" ELSE "failed", world, zoom)
    /\ UNCHANGED <<engineVars, phase, mapRef, engineRef, worldRef, pollingRef,
                   issued, received, ui, selectedDroneIdRef, holder, timers,
                   backend, sim>>

\* the rest of a handler once res.json() resolved with dto: ingestion, the
\* engine calls, the state updates and the selection refresh; an ingestion
\* that throws ends in the catch block; a rendering that throws unmounts the
\* component, whose cleanups run
RunHandler(r, dto, op, live) ==
  LET out == handleSnapshot(worldRef, Cur, dto, live, [zoom |-> zoom])
      S1 == IF out.rendered THEN out.engine ELSE NoEngine(out.worldRef, zoom)
      sel == refreshSelection(op, selectedDroneIdRef,
                              setEventLog(setEvents(ui, dto), dto),
                              S1, mapRef, out.worldRef)
      shown == IF phase = "mounted" THEN sel.ui ELSE ui
  IN /\ inflight' = inflight \ {r}
     /\ worldRef' = out.worldRef
     /\ UNCHANGED <<issued, selectedDroneIdRef, backend, sim>>
     /\ IF out.threw
        THEN /\ UNCHANGED <<engineVars, phase, mapRef, engineRef, pollingRef,
                            received, ui, holder, timers>>
             /\ lastCall' = Ran("failed", world, zoom)
        ELSE /\ received' = dto /\ holder' = r.id
             /\ pollingRef' = pollingRef
             /\ IF renderThrows(shown)
                THEN /\ ui' = [shown EXCEPT !.crashed = TRUE]
                     /\ phase' = "cleaned"
                     /\ timers' = clearInterval(clearInterval(timers, pollingRef),
                                                pollingRef)
                     /\ mapRef' = FALSE /\ engineRef' = FALSE
                     /\ Becomes(NoEngine(out.worldRef, zoom))
                ELSE /\ ui' = shown
                     /\ UNCHANGED <<phase, timers, mapRef, engineRef>>
                     /\ Becomes(sel.engine)
             /\ lastCall' = Handled(op, out.worldRef, zoom, out.rendered)

\* res.json() of a poll resolves with a snapshot: the rest of poll() runs
PollHandler ==
  \E r \in inflight, dto \in Responses :
    /\ r.kind = "poll" /\ r.pc = "json"
    /\ RunHandler(r, dto, "poll", pollGuard(engineRef, mapRef))

\* res.json() of a patrol-area post resolves: the rest of sendPolygon runs
PatrolHandler ==
  \E r \in inflight, dto \in Responses :
    /\ r.kind = "patrol" /\ r.pc = "json"
    /\ RunHandler(r, dto, "patrol", patrolGuard(engineRef, mapRef))

\* res.json() rejects: the catch block logs and the handler ends
JsonRejects ==
  \E r \in inflight :
    /\ r.pc = "json"
    /\ inflight' = inflight \ {r}
    /\ lastCall' = Ran("failed", world, zoom)
    /\ UNCHANGED <<engineVars, phase, mapRef, engineRef, worldRef, pollingRef,
                   issued, received, ui, selectedDroneIdRef, holder, timers,
                   backend, sim>>

\* map.on("zoom")
ZoomEvent ==
  \E z \in Zooms :
    /\ mapRef
    /\ IF engineRef
       THEN Becomes(update([Cur EXCEPT !.zoom = z], [zoom |-> z]))
       ELSE Becomes(NoEngine(worldRef, z))
    /\ lastCall' = Ran("zoom", world, z)
    /\ UNCHANGED <<appVars, simVars>>

\* the cleanups of both effects: the interval cleared by the map effect
\* through pollingRef and by the poll effect through its id, the map removed
Cleanup ==
  /\ phase = "mounted"
  /\ phase' = "cleaned" /\ mapRef' = FALSE /\ engineRef' = FALSE
  /\ timers' = clearInterval(clearInterval(timers, pollingRef), pollingRef)
  /\ Becomes(NoEngine(worldRef, zoom))
  /\ lastCall' = Ran("cleanup", world, zoom)
  /\ UNCHANGED <<worldRef, pollingRef, inflight, issued, received, ui,
                 selectedDroneIdRef, holder, backend, sim>>

NextApp ==
  \/ Mount \/ MapLoad \/ PollTick \/ HandleDrawChange \/ FetchSettles
  \/ PollHandler \/ PatrolHandler \/ JsonRejects \/ ZoomEvent \/ Cleanup

\* the mounted component with its backend, its user and its timers
SpecApp == InitApp /\ [][NextApp]_vars

(***************************************************************************)
(* MapView.tsx with its operator: the clicks that select a drone, the      *)
(* effect that copies selectedDroneId into selectedDroneIdRef once React   *)
(* has rendered, and the effects run again on the component that stays     *)
(* (its refs and its state are kept).                                      *)
(***************************************************************************)
InitSession ==
  /\ \E w \in InitialWorlds :
       /\ worldRef = w
       /\ Is(NewRenderEngine(w))
       /\ lastCall = [op |-> "new", descriptor |-> NoDescriptor, world |-> w,
                      zoom |-> InitialZoom, prev |-> ""]
  /\ phase = "unmounted" /\ mapRef = FALSE /\ engineRef = FALSE
  /\ pollingRef = 0 /\ inflight = {} /\ issued = 0 /\ received = NoSnapshot
  /\ ui = InitialUi /\ selectedDroneIdRef = NoId /\ holder = 0 /\ timers = {}
  /\ backend = "session" /\ sim = NoSimulation

\* a click of the component ran last; selected: the id it was given
Clicked(op, selected, w, z) ==
  [op |-> op, descriptor |-> NoDescriptor, world |-> w, zoom |-> z, prev |-> "",
   selected |-> selected]

\* the features of the drones layer the map shows at its zoom
renderedDrones ==
  IF /\ mapRef /\ "drones-layer" \in DOMAIN styleLayers
     /\ styleLayers["drones-layer"].minzoom <= zoom
     /\ "drones-source" \in DOMAIN sources
  THEN {sources["drones-source"].features[i] :
          i \in 1..Len(sources["drones-source"].features)}
  ELSE {}

\* setSelectedDroneId(id); setSelectedDrone(drone)
select(state, id, drone) ==
  [state EXCEPT !.selectedDroneId = id, !.selectedDrone = drone]

\* map.on("click", "drones-layer"): a click on a drone
ClickDrone ==
  \E feature \in renderedDrones :
    /\ phase = "mounted"
    /\ IF "id" \notin DOMAIN feature.properties
       THEN /\ UNCHANGED <<engineVars, ui>>
            /\ lastCall' = Clicked("clickDrone", NoId, world, zoom)
       ELSE LET id == feature.properties.id
                drone == findDrone(worldRef, id)
            IN /\ ui' = select(ui, id, drone)
               /\ Becomes(updateHighlight(Cur, mapRef, drone))
               /\ lastCall' = Clicked("clickDrone", id, world, zoom)
    /\ UNCHANGED <<phase, mapRef, engineRef, worldRef, pollingRef, inflight,
                   issued, received, selectedDroneIdRef, holder, timers, backend,
                   sim>>

\* map.on("click", "suspicious-events-layer") and "lost-events-layer": a
\* click on the marker of an event; the markers are those of the events state
ClickEventMarker ==
  \E k \in 1..Len(ui.events) :
    /\ phase = "mounted" /\ mapRef
    /\ getSource(Cur, "suspicious-events") /\ getSource(Cur, "lost-events")
    /\ LET drone == findDrone(worldRef, ui.events[k].drone_id)
       IN IF drone = Null
          THEN /\ UNCHANGED <<engineVars, ui>>
               /\ lastCall' = Clicked("clickEvent", NoId, world, zoom)
          ELSE /\ ui' = select(ui, drone.id, drone)
               /\ Becomes(updateHighlight(Cur, mapRef, drone))
               /\ lastCall' = Clicked("clickEvent", drone.id, world, zoom)
    /\ UNCHANGED <<phase, mapRef, engineRef, worldRef, pollingRef, inflight,
                   issued, received, selectedDroneIdRef, holder, timers, backend,
                   sim>>

\* map.on("click") away from every drone and marker: the selection is cleared
ClickEmpty ==
  /\ phase = "mounted" /\ mapRef
  /\ ui' = select(ui, NoId, Null)
  /\ Becomes(updateHighlight(Cur, mapRef, Null))
  /\ lastCall' = Clicked("clickEmpty", NoId, world, zoom)
  /\ UNCHANGED <<phase, mapRef, engineRef, worldRef, pollingRef, inflight,
                 issued, received, selectedDroneIdRef, holder, timers, backend,
                 sim>>

\* the effect on [selectedDroneId], run by React after the render that
\* follows a change of the selection
SyncSelectedDroneIdRef ==
  /\ phase = "mounted"
  /\ selectedDroneIdRef # ui.selectedDroneId
  /\ selectedDroneIdRef' = ui.selectedDroneId
  /\ lastCall' = Ran("sync", world, zoom)
  /\ UNCHANGED <<engineVars, phase, mapRef, engineRef, worldRef, pollingRef,
                 inflight, issued, received, ui, holder, timers, backend, sim>>

NextSession ==
  \/ Mount \/ MapLoad \/ PollTick \/ HandleDrawChange \/ FetchSettles
  \/ PollHandler \/ PatrolHandler \/ JsonRejects \/ ZoomEvent \/ Cleanup
  \/ ClickDrone \/ ClickEventMarker \/ ClickEmpty \/ SyncSelectedDroneIdRef

\* the component with its backend, its timers and an operator who clicks
SpecSession == InitSession /\ [][NextSession]_vars

(***************************************************************************)
(* MapView.tsx with effects that are run again after their cleanups (the   *)
(* component stays, with its refs and its state), as React does for a      *)
(* component it re-mounts.                                                 *)
(***************************************************************************)
InitLifecycle ==
  /\ \E w \in InitialWorlds :
       /\ worldRef = w
       /\ Is(NewRenderEngine(w))
       /\ lastCall = [op |-> "new", descriptor |-> NoDescriptor, world |-> w,
                      zoom |-> InitialZoom, prev |-> ""]
  /\ phase = "unmounted" /\ mapRef = FALSE /\ engineRef = FALSE
  /\ pollingRef = 0 /\ inflight = {} /\ issued = 0 /\ received = NoSnapshot
  /\ ui = InitialUi /\ selectedDroneIdRef = NoId /\ holder = 0 /\ timers = {}
  /\ backend = "lifecycle" /\ sim = NoSimulation

\* the effects run again after their cleanups, on a new map
Remount ==
  /\ phase = "cleaned" /\ ~ui.crashed
  /\ pollingRef < MaxMounts /\ issued < MaxRequests
  /\ RunEffects
  /\ Becomes(NoEngine(worldRef, InitialZoom))
  /\ lastCall' = Ran("remount", world, InitialZoom)

NextLifecycle ==
  \/ Mount \/ MapLoad \/ PollTick \/ FetchSettles \/ PollHandler
  \/ JsonRejects \/ Cleanup \/ Remount

\* the component through mounts, cleanups and re-mounts of its effects
SpecLifecycle == InitLifecycle /\ [][NextLifecycle]_vars

(***************************************************************************)
(* The formation simulation: the tick that advances the leader parameter,  *)
(* applies the one-shot attrition and spaces the active drones along the   *)
(* patrol path.  A fractional parameter u / LoopUnits is the pair          *)
(* <<u, LoopUnits>>; LoopUnits is a multiple of every formation size.      *)
(***************************************************************************)
RECURSIVE Factorial(_)
Factorial(n) == IF n <= 1 THEN 1 ELSE n * Factorial(n - 1)

LoopUnits == Factorial(FormationSize)

\* the configuration: fraction of the loop per second (in 1/LoopUnits), the
\* elapsed time after which attrition applies, the count the formation must
\* exceed, the index (0-based) of the drone that is lost
Speed == 1
AttritionThreshold == 2
MinDrones == 2
AttritionIndex == 1

\* the corner of a path, east and north of the home base
Corner(e, n) == <<BaseLng + e, BaseLat + n>>

\* a loop whose sides are parallel to the axes; its perimeter is a multiple
\* of LoopUnits at every formation size the model uses
Rectangle(w, h) == <<Corner(0, 0), Corner(w, 0), Corner(w, h), Corner(0, h)>>

\* the patrol paths: none, one of 2 vertices, one of 3 vertices on one spot
\* (zero perimeter), and two loops of different length
Paths ==
  {NoPath, <<Corner(0, 0), Corner(24, 0)>>,
   <<Corner(0, 0), Corner(0, 0), Corner(0, 0)>>,
   Rectangle(24, 24), Rectangle(72, 24)}

Abs(x) == IF x < 0 THEN -x ELSE x

\* the Euclidean length of an edge parallel to an axis
Dist(a, b) == Abs(b[1] - a[1]) + Abs(b[2] - a[2])

RECURSIVE Sum(_)
Sum(seq) == IF seq = <<>> THEN 0 ELSE Head(seq) + Sum(Tail(seq))

\* precomputePath: the length of each of the n edges, vertex i to vertex
\* (i + 1) mod n, and their sum; a path of fewer than 3 vertices is inactive
precomputePath(path) ==
  LET n == Len(path)
      lengths == [i \in 1..n |-> Dist(path[i], path[(i % n) + 1])]
  IN IF n < 3 THEN [segmentLengths |-> <<>>, totalLength |-> 0]
     ELSE [segmentLengths |-> lengths, totalLength |-> Sum(lengths)]

NoPoint == <<>>

\* the walk over the segments from segment i with distance left to go
RECURSIVE walk(_, _, _, _)
walk(path, segmentLengths, i, left) ==
  LET n == Len(path)
      a == path[((i - 1) % n) + 1]
      b == path[(i % n) + 1]
      len == segmentLengths[i]
  IN IF left <= len \/ i = Len(segmentLengths)
     THEN IF len = 0 THEN a
          ELSE <<a[1] + ((b[1] - a[1]) * left) \div len,
                 a[2] + ((b[2] - a[2]) * left) \div len>>
     ELSE walk(path, segmentLengths, i + 1, left - len)

\* the point at fraction u / LoopUnits of the loop, none without a path
pointAtFraction(path, segmentLengths, totalLength, u) ==
  IF Len(path) = 0 \/ totalLength = 0 \/ Len(segmentLengths) = 0 THEN NoPoint
  ELSE walk(path, segmentLengths, 1,
            (((u % LoopUnits) * totalLength) \div LoopUnits))

setPath_KeepsCaches(st, path) == [st EXCEPT !.path = path]

\* the path is replaced and its caches recomputed in one assignment
setPath(st, path) ==
  [st EXCEPT !.path = path,
             !.segmentLengths = precomputePath(path).segmentLengths,
             !.totalLength = precomputePath(path).totalLength]

formationParam_InitialCount(leaderParam, idx, n) ==
  (leaderParam + idx * (LoopUnits \div FormationSize)) % LoopUnits

\* step 4: (leaderParam + idx / n) mod 1
formationParam(leaderParam, idx, n) ==
  (leaderParam + idx * (LoopUnits \div n)) % LoopUnits

applyAttrition_NoFlag(st, drones) ==
  IF /\ st.elapsed > AttritionThreshold
     /\ Len(drones) > MinDrones
     /\ AttritionIndex < Len(drones)
  THEN [sim |-> [st EXCEPT !.removed = Append(@, drones[AttritionIndex + 1].id)],
        drones |-> SubSeq(drones, 1, AttritionIndex)
                     \o SubSeq(drones, AttritionIndex + 2, Len(drones))]
  ELSE [sim |-> st, drones |-> drones]

\* step 3: the one-shot attrition
applyAttrition(st, drones) ==
  IF /\ st.elapsed > AttritionThreshold
     /\ ~st.attritionApplied
     /\ Len(drones) > MinDrones
     /\ AttritionIndex < Len(drones)
  THEN [sim |-> [st EXCEPT !.attritionApplied = TRUE,
                           !.removed = Append(@, drones[AttritionIndex + 1].id)],
        drones |-> SubSeq(drones, 1, AttritionIndex)
                     \o SubSeq(drones, AttritionIndex + 2, Len(drones))]
  ELSE [sim |-> st, drones |-> drones]

tick_NoGuard(st, dt, w) ==
  LET st1 == [st EXCEPT !.leaderParam = (@ + Speed * dt) % LoopUnits,
                        !.elapsed = @ + dt]
      a == applyAttrition(st1, w.drones)
      n == Len(a.drones)
      place(idx) ==
        LET f == formationParam(a.sim.leaderParam, idx - 1, n)
            point == pointAtFraction(a.sim.path, a.sim.segmentLengths,
                                     a.sim.totalLength, f)
        IN IF point = NoPoint THEN a.drones[idx]
           ELSE [a.drones[idx] EXCEPT !.pathParam = <<f, LoopUnits>>,
                                      !.position = point]
  IN [sim |-> a.sim,
      world |-> [w EXCEPT !.drones = [idx \in 1..n |-> place(idx)]]]

\* the per-tick algorithm (dt, world) -> world with the state it carries
tick(st, dt, w) ==
  IF dt <= 0 \/ st.totalLength = 0 \/ Len(w.drones) = 0
  THEN [sim |-> st, world |-> w]
  ELSE LET st1 == [st EXCEPT !.leaderParam = (@ + Speed * dt) % LoopUnits,
                             !.elapsed = @ + dt]
           a == applyAttrition(st1, w.drones)
           n == Len(a.drones)
           place(idx) ==
             LET f == formationParam(a.sim.leaderParam, idx - 1, n)
                 point == pointAtFraction(a.sim.path, a.sim.segmentLengths,
                                          a.sim.totalLength, f)
             IN IF point = NoPoint THEN a.drones[idx]
                ELSE [a.drones[idx] EXCEPT !.pathParam = <<f, LoopUnits>>,
                                           !.position = point]
       IN [sim |-> a.sim,
           world |-> [w EXCEPT !.drones = [idx \in 1..n |-> place(idx)]]]

\* the simulation tick ran last with elapsed time dt
Ticked(dt, w, z) ==
  [op |-> "simTick", descriptor |-> NoDescriptor, world |-> w, zoom |-> z,
   prev |-> lastCall.op, dt |-> dt]

\* a formation of up to FormationSize drones is created, all drones at the
\* same drawn offset
InitSim ==
  /\ \E n \in 0..FormationSize, off \in OffsetPairs :
       /\ Is(NewRenderEngine(createFormation(n, [k \in 1..n |-> off])))
       /\ sim = [NoSimulation EXCEPT !.formed = n]
  /\ lastCall = [op |-> "new", descriptor |-> NoDescriptor, world |-> world,
                 zoom |-> InitialZoom, prev |-> ""]
  /\ phase = "unmounted" /\ mapRef = TRUE /\ engineRef = TRUE /\ worldRef = world
  /\ pollingRef = 0 /\ inflight = {} /\ issued = 0 /\ received = NoSnapshot
  /\ ui = InitialUi /\ selectedDroneIdRef = NoId /\ holder = 0 /\ timers = {}
  /\ backend = "none"

\* the operator draws, replaces or removes the patrol path
SetPath ==
  \E path \in Paths :
    /\ sim' = setPath(sim, path)
    /\ lastCall' = Call("setPath", NoDescriptor, world, zoom)
    /\ UNCHANGED <<engineVars, appVars>>

\* an animation frame: the simulation tick, then update projects its world
SimTick ==
  \E dt \in {-1, 0, 1, 2} :
    /\ sim.elapsed + dt <= MaxElapsed
    /\ LET out == tick(sim, dt, world)
       IN /\ sim' = out.sim
          /\ worldRef' = out.world
          /\ Becomes(renderSnapshot(Cur, out.world, [zoom |-> zoom]))
          /\ lastCall' = Ticked(dt, out.world, zoom)
    /\ UNCHANGED <<phase, mapRef, engineRef, pollingRef, inflight, issued,
                   received, ui, selectedDroneIdRef, holder, timers, backend>>

NextSim == SetPath \/ SimTick

\* the formation simulation driven frame by frame
SpecSim == InitSim /\ [][NextSim]_vars

(***************************************************************************)
(* Properties of the render engine.                                        *)
(***************************************************************************)
NoRepeats(log) == \A i, j \in 1..Len(log) : log[i] = log[j] => i = j

Occurrences(seq, Test(_)) == Cardinality({i \in 1..Len(seq) : Test(seq[i])})

\* the registered descriptors whose source the map holds, in registration order
Pushable == LET present(d) == d.sourceId \in DOMAIN sources
            IN SelectSeq(layers, present)

\* C1: over any sequence of registerLayer, setWorldState and update calls the
\* map's addSource is called at most once per source id and addLayer at most
\* once per layer id.
C1_CreationOncePerId == NoRepeats(addSourceLog) /\ NoRepeats(addLayerLog)

\* the same descriptor registered twice and then refreshed
C1_Witness ==
  /\ lastCall.op = "update"
  /\ \E i, j \in 1..Len(layers) : i < j /\ layers[i] = layers[j]
  /\ Len(addSourceLog) < Len(layers)

\* C2: an update call that follows registerLayer(d) or another update (so the
\* world state is unchanged) creates no source and no layer; after an update
\* it repeats the pushes of that update, and after registerLayer(d) it leaves
\* in d's source the collection registerLayer pushed.
C2_UpdateIsIdempotentRefresh ==
  [][(lastCall'.op = "update" /\ lastCall.op \in {"update", "registerLayer"})
       => /\ addSourceLog' = addSourceLog
          /\ addLayerLog' = addLayerLog
          /\ lastCall.op = "update" => setDataLog' = setDataLog /\ sources' = sources
          /\ lastCall.op = "registerLayer"
               => /\ sources'[lastCall.descriptor.sourceId]
                       = sources[lastCall.descriptor.sourceId]
                  /\ \E i \in 1..Len(setDataLog') :
                       setDataLog'[i] = setDataLog[1]
                  /\ \A i \in 1..Len(setDataLog') :
                       setDataLog'[i].sourceId = lastCall.descriptor.sourceId
                         => setDataLog'[i] = setDataLog[1]]_vars

\* two updates in a row that pushed a non-empty collection
C2_Witness ==
  /\ lastCall.op = "update" /\ lastCall.prev = "update"
  /\ \E i \in 1..Len(setDataLog) : setDataLog[i].data # EmptyCollection

\* C3: an update call performs, for the registered descriptors whose source
\* exists and in registration order, exactly one setData each, with
\* dataSelector(current world state), whatever the zoom of the view.
C3_UpdatePushesEveryLayer ==
  lastCall.op = "update"
    => setDataLog = [i \in 1..Len(Pushable) |->
                       [sourceId |-> Pushable[i].sourceId,
                        data |-> dataSelector(Pushable[i], world)]]

\* an update at a zoom below minZoom, right after another update, pushes two layers
C3_Witness ==
  /\ lastCall.op = "update" /\ lastCall.prev = "update"
  /\ lastCall.zoom < createDronesLayerDescriptor.minZoom
  /\ Len(setDataLog) >= 2
  /\ setDataLog[1].sourceId # setDataLog[2].sourceId

\* C4: registerLayer(d) performs exactly one data push, of
\* dataSelector(current world state) into d's source, which then holds it.
C4_RegisterPushesOnce ==
  lastCall.op = "registerLayer"
    => /\ setDataLog = <<[sourceId |-> lastCall.descriptor.sourceId,
                          data |-> dataSelector(lastCall.descriptor, world)]>>
       /\ sources[lastCall.descriptor.sourceId]
            = dataSelector(lastCall.descriptor, world)

\* a layer registered after the world was replaced shows that world's drones
C4_Witness ==
  /\ lastCall.op = "registerLayer" /\ lastCall.prev = "setWorldState"
  /\ lastCall.descriptor = createDronesLayerDescriptor
  /\ Len(world.drones) > 0
  /\ Len(sources["drones-source"].features) = Len(world.drones)

\* C5: setWorldState(w) replaces the world reference and nothing else: no
\* setData, no source or layer created, the registered descriptors and the
\* data of every source unchanged; the update that follows projects w.
C5_SetWorldStateOnlyReplaces ==
  [][/\ lastCall'.op = "setWorldState"
          => /\ world' = lastCall'.world
             /\ setDataLog' = <<>> /\ selectorLog' = <<>>
             /\ sources' = sources /\ styleLayers' = styleLayers
             /\ addSourceLog' = addSourceLog /\ addLayerLog' = addLayerLog
             /\ layers' = layers
     /\ (lastCall.op = "setWorldState" /\ lastCall'.op = "update")
          => \A i \in 1..Len(layers) :
               layers[i].sourceId \in DOMAIN sources
                 => sources'[layers[i].sourceId]
                      = dataSelector(layers[i], lastCall.world)]_vars

\* a replaced world that the sources do not show yet
C5_Witness ==
  /\ lastCall.op = "setWorldState"
  /\ \E i \in 1..Len(layers) :
       /\ layers[i].sourceId \in DOMAIN sources
       /\ sources[layers[i].sourceId] # dataSelector(layers[i], world)

\* C6: in an update, a registered descriptor whose source the map does not
\* hold is skipped, its dataSelector not called, and every registered
\* descriptor whose source exists is still pushed.
C6_MissingSourceSkipped ==
  lastCall.op = "update"
    => /\ selectorLog = [i \in 1..Len(Pushable) |-> Pushable[i].id]
       /\ \A i \in 1..Len(layers) :
            IF layers[i].sourceId \in DOMAIN sources
            THEN /\ \E k \in 1..Len(setDataLog) :
                      setDataLog[k].sourceId = layers[i].sourceId
                 /\ sources[layers[i].sourceId] = dataSelector(layers[i], world)
            ELSE /\ \A k \in 1..Len(setDataLog) :
                      setDataLog[k].sourceId # layers[i].sourceId
                 /\ \A k \in 1..Len(selectorLog) : selectorLog[k] # layers[i].id

\* an update that skipped a descriptor and pushed one registered after it
C6_Witness ==
  /\ lastCall.op = "update"
  /\ \E i, j \in 1..Len(layers) :
       /\ i < j
       /\ layers[i].sourceId \notin DOMAIN sources
       /\ layers[j].sourceId \in DOMAIN sources
       /\ \E k \in 1..Len(setDataLog) : setDataLog[k].sourceId = layers[j].sourceId

\* C7: after registerLayer(d) the map holds a source d.sourceId and a layer
\* d.layerId drawn from it, for a point and for a polygon descriptor; every
\* layer id the engine records as initialized was added to the map.
C7_RegisteredLayerExists ==
  /\ lastCall.op = "registerLayer"
       => /\ lastCall.descriptor.sourceId \in DOMAIN sources
          /\ lastCall.descriptor.layerId \in DOMAIN styleLayers
          /\ styleLayers[lastCall.descriptor.layerId].source
               = lastCall.descriptor.sourceId
  /\ \A l \in initializedLayers : \E i \in 1..Len(addLayerLog) : addLayerLog[i] = l
  /\ \A s \in initializedSources : \E i \in 1..Len(addSourceLog) : addSourceLog[i] = s

\* the polygon descriptor registered
C7_Witness ==
  /\ lastCall.op = "registerLayer"
  /\ lastCall.descriptor.kind = "polygon"
  /\ lastCall.descriptor.layerId \in initializedLayers

\* C8: registerLayer appends its descriptor also when its layer id is already
\* registered, so a layer id registered k times is pushed k times by every
\* update, while its source and layer are created once.
C8_NoDeduplication ==
  /\ [][lastCall'.op = "registerLayer"
          => layers' = Append(layers, lastCall'.descriptor)]_vars
  /\ [](lastCall.op = "update"
          => \A d \in Descriptors :
               LET sameLayer(x) == x.layerId = d.layerId
                   sameSource(x) == x.sourceId = d.sourceId
                   isLayer(x) == x = d.layerId
                   isSource(x) == x = d.sourceId
               IN /\ Occurrences(setDataLog, sameSource)
                       = Occurrences(layers, sameLayer)
                  /\ Occurrences(addLayerLog, isLayer) <= 1
                  /\ Occurrences(addSourceLog, isSource) <= 1)

\* a layer id registered twice and pushed twice by one update
C8_Witness ==
  /\ lastCall.op = "update"
  /\ Len(layers) >= 2
  /\ \A i \in 1..Len(layers) : layers[i].layerId = layers[1].layerId
  /\ Len(setDataLog) = Len(layers)
  /\ Len(addLayerLog) = 1

(***************************************************************************)
(* Properties of the response handlers and of the ingestion step.          *)
(***************************************************************************)
\* the point features of the drones of a snapshot as the backend sent it
DronesOfSnapshot(dto) ==
  [i \in 1..Len(dto.drones) |->
     [type |-> "Feature",
      properties |-> [k \in DOMAIN dto.drones[i] \cap {"id", "side"} |->
                        dto.drones[i][k]],
      geometry |-> [type |-> "Point",
                    coordinates |-> <<dto.drones[i].position.lng,
                                      dto.drones[i].position.lat>>]]]

\* C9: when the poll handler or the patrol-area response handler has run
\* with an engine and a drones source present, the drones source holds the
\* projection of the snapshot just received and the engine's world is the
\* world built from it.
C9_HandlerShowsReceivedSnapshot ==
  (lastCall.op \in {"poll", "patrol"} /\ engineRef /\ "drones-source" \in DOMAIN sources)
    => /\ sources["drones-source"].features = DronesOfSnapshot(received)
       /\ world = worldRef

\* a poll handler that rendered two drones while another request is in flight
C9_Witness ==
  /\ lastCall.op = "poll" /\ engineRef
  /\ inflight # {}
  /\ Len(received.drones) >= 2
  /\ Len(sources["drones-source"].features) = Len(received.drones)

\* C10: ingestion keeps the number and the order of the drones, copies id,
\* side, path_param, battery and (lng, lat) of each and the id and position
\* of the home base, keeps the modes PATROL and RETURNING and maps every
\* other mode to PATROL.
C10_IngestionOneToOne ==
  lastCall.op \in {"poll", "patrol"}
    => /\ Len(worldRef.drones) = Len(received.drones)
       /\ \A i \in 1..Len(received.drones) :
            LET d == received.drones[i]
                e == worldRef.drones[i]
            IN /\ \A f \in {"id", "side", "battery"} \cap DOMAIN d : e[f] = d[f]
               /\ "path_param" \in DOMAIN d => e.pathParam = d.path_param
               /\ e.position = <<d.position.lng, d.position.lat>>
               /\ e.mode = IF modeOf(d) \in DroneMode THEN d.mode ELSE "PATROL"
       /\ worldRef.homeBase.id = received.home_base.id
       /\ worldRef.homeBase.position
            = <<received.home_base.position.lng, received.home_base.position.lat>>

\* a snapshot with a RETURNING drone followed by one in a mode the display lacks
C10_Witness ==
  /\ lastCall.op = "patrol"
  /\ Len(received.drones) >= 2
  /\ received.drones[1].mode = "RETURNING"
  /\ received.drones[2].mode \notin DroneMode
  /\ worldRef.drones[2].mode = "PATROL"

(***************************************************************************)
(* Properties of the ingestion of incomplete snapshots and of failures.    *)
(***************************************************************************)
EntityFields == {"id", "side", "pathParam", "battery", "mode", "position"}

\* C11: every drone a handler ingested has exploration = 0 (no snapshot
\* carries an exploration value), and a snapshot without events list is
\* ingested like one with an empty list: the world reference is the world
\* built from it, the events shown are the empty list and nothing threw.
C11_AbsentFieldsDefaulted ==
  lastCall.op \in {"poll", "patrol"}
    => /\ \A i \in 1..Len(worldRef.drones) :
            /\ "exploration" \in DOMAIN worldRef.drones[i]
            /\ worldRef.drones[i].exploration = 0
       /\ "events" \notin DOMAIN received
            => /\ worldRef = dtoToWorldState(received)
               /\ ~ui.crashed
               /\ "events" \in DOMAIN ui /\ ui.events = <<>>

\* C12: no drone of the world reference or of the engine's world lacks one
\* of the fields id, side, pathParam, battery, mode and position.
C12_NoPartialEntity ==
  /\ \A i \in 1..Len(worldRef.drones) : EntityFields \subseteq DOMAIN worldRef.drones[i]
  /\ \A i \in 1..Len(world.drones) : EntityFields \subseteq DOMAIN world.drones[i]

\* C13: a request that failed (the fetch rejected or answered not OK,
\* res.json() rejected, ingestion threw) leaves the world reference, the
\* engine's world and the data of every source as they were, pushes nothing
\* and leaves the interval timer, the map and the engine in place; the poll
\* handler that runs next still installs the snapshot it receives.
C13_FailedRequestAbsorbed ==
  /\ [][lastCall'.op = "failed"
          => /\ worldRef' = worldRef /\ world' = world
             /\ sources' = sources /\ setDataLog' = setDataLog
             /\ pollingRef' = pollingRef /\ phase' = phase
             /\ mapRef' = mapRef /\ engineRef' = engineRef]_vars
  /\ []((lastCall.op = "poll" /\ lastCall.prev = "failed")
          => /\ worldRef = dtoToWorldState(received)
             /\ lastCall.rendered => world = worldRef)

\* a poll that rendered two drones right after a request failed
C13_Witness ==
  /\ lastCall.op = "poll" /\ lastCall.prev = "failed"
  /\ lastCall.rendered /\ phase = "mounted"
  /\ Len(world.drones) >= 2

\* C14: handleDrawChange sends a request exactly when the first drawn
\* feature is a polygon whose ring has at least 4 coordinates; the request
\* carries the ring without its closing coordinate, in order, as {lng, lat}
\* and the active-drone count; every patrol-area request in flight carries
\* at least 3 vertices.
C14_PatrolRequestShape ==
  /\ [][lastCall'.op = "draw"
          => LET fs == lastCall'.features
             IN IF Len(fs) > 0 /\ fs[1].type = "Polygon" /\ Len(fs[1].ring) >= 4
                THEN \E r \in inflight' :
                       /\ r \notin inflight /\ inflight' = inflight \cup {r}
                       /\ issued' = issued + 1
                       /\ r.kind = "patrol"
                       /\ r.body.num_active = NumActive
                       /\ Len(r.body.polygon) = Len(fs[1].ring) - 1
                       /\ \A i \in 1..Len(r.body.polygon) :
                            r.body.polygon[i] = [lng |-> fs[1].ring[i][1],
                                                 lat |-> fs[1].ring[i][2]]
                ELSE inflight' = inflight /\ issued' = issued]_vars
  /\ [](\A r \in inflight :
          r.kind = "patrol"
            => Len(r.body.polygon) >= 3 /\ r.body.num_active = NumActive)

\* a ring of 4 coordinates was drawn and its 3 vertices are on their way
C14_Witness ==
  /\ lastCall.op = "draw"
  /\ Len(lastCall.features) = 1 /\ Len(lastCall.features[1].ring) = 4
  /\ \E r \in inflight : r.kind = "patrol" /\ Len(r.body.polygon) = 3

\* what the polygon tool leaves in draw.getAll(): closed rings of at least
\* 4 coordinates, none after the deletion of the only polygon
PolygonToolFeatures(features) ==
  \A i \in 1..Len(features) :
    features[i].type = "Polygon" /\ Len(features[i].ring) >= 4

\* C15: each draw.create, draw.update and draw.delete event of the polygon
\* tool sends a patrol-area request.
C15_EveryDrawEventNotifies ==
  [][(lastCall'.op = "draw" /\ PolygonToolFeatures(lastCall'.features))
       => \E r \in inflight' : r \notin inflight /\ r.kind = "patrol"]_vars

\* C16: once the cleanups have run no request is sent, no response handler
\* calls the engine, and the map and the engine stay released; the map is
\* given no data.
C16_NothingAfterCleanup ==
  [][phase = "cleaned"
       => /\ issued' = issued
          /\ \A r \in inflight' : r \in inflight \/ r.pc = "json"
          /\ lastCall'.op \in {"poll", "patrol"} => ~lastCall'.rendered
          /\ ~mapRef' /\ ~engineRef' /\ timers' = {}
          /\ sources' = sources /\ setDataLog' = <<>>]_vars

\* the response of a poll in flight at the cleanup was handled after it
C16_Witness ==
  /\ phase = "cleaned" /\ ~ui.crashed
  /\ lastCall.op = "poll" /\ ~lastCall.rendered
  /\ Len(worldRef.drones) >= 2

(***************************************************************************)
(* The world state as a value that is only read.                           *)
(***************************************************************************)
\* C17: registerLayer and update, with the dataSelector calls they make,
\* leave the engine's world (drone list, each drone's fields, home base) and
\* the descriptors registered before as they were; the world changes only
\* in setWorldState, to the value it is given, and setWorldState leaves the
\* registered descriptors alone.
C17_WorldIsOnlyRead ==
  [][/\ lastCall'.op \in {"registerLayer", "update"}
          => /\ world' = world
             /\ Len(layers') >= Len(layers)
             /\ \A i \in 1..Len(layers) : layers'[i] = layers[i]
     /\ world' # world
          => lastCall'.op = "setWorldState" /\ world' = lastCall'.world
     /\ lastCall'.op = "setWorldState" => layers' = layers]_vars

\* an update that pushed the drones of a replaced world and kept them
C17_Witness ==
  /\ lastCall.op = "update" /\ lastCall.prev = "setWorldState"
  /\ Len(world.drones) > 0
  /\ \E i \in 1..Len(setDataLog) :
       /\ setDataLog[i].sourceId = "drones-source"
       /\ Len(setDataLog[i].data.features) = Len(world.drones)

\* C18: whenever the engine exists, the drones source holds one point
\* feature per drone of the engine's world, in drone order, with that
\* drone's id, side and position, also for drones that lack a field; a
\* zoom event, which calls the selector again on the same world, pushes an
\* equal collection.
C18_DronesSelectorTotalAndStable ==
  /\ []((engineRef /\ "drones-source" \in DOMAIN sources)
          => LET fc == sources["drones-source"]
             IN /\ fc.type = "FeatureCollection"
                /\ Len(fc.features) = Len(world.drones)
                /\ \A i \in 1..Len(world.drones) :
                     LET f == fc.features[i]
                         drone == world.drones[i]
                     IN /\ f.type = "Feature" /\ f.geometry.type = "Point"
                        /\ f.geometry.coordinates = drone.position
                        /\ DOMAIN f.properties = DOMAIN drone \cap {"id", "side"}
                        /\ \A k \in DOMAIN f.properties : f.properties[k] = drone[k])
  /\ [][(lastCall'.op = "zoom" /\ engineRef /\ world' = world)
          => /\ sources'["drones-source"] = sources["drones-source"]
             /\ \E i \in 1..Len(setDataLog') :
                  setDataLog'[i] = [sourceId |-> "drones-source",
                                    data |-> sources["drones-source"]]]_vars

\* a zoom event pushed again the two drones a poll had delivered
C18_Witness ==
  /\ lastCall.op = "zoom" /\ engineRef
  /\ Len(world.drones) >= 2
  /\ Len(sources["drones-source"].features) = Len(world.drones)
  /\ \A i \in 1..2 : "id" \in DOMAIN world.drones[i]
  /\ world.drones[1].id # world.drones[2].id

(***************************************************************************)
(* Properties of the formation simulation.                                 *)
(***************************************************************************)
\* C19: with n active drones and leader parameter L the drone at index idx
\* has the parameter (L + idx / n) mod 1, before the first tick (L = 0,
\* drone i of the created formation at i / n) and after every tick; the
\* parameters are pairwise distinct and consecutive ones, cyclically, are
\* 1 / n apart.
C19_FormationSpacing ==
  LET n == Len(world.drones)
      q == LoopUnits * n
      \* the parameter of the drone at index idx in units of 1 / (q * its denominator)
      param(idx) == world.drones[idx + 1].pathParam
      units(idx) == (param(idx)[1] * q) \div param(idx)[2]
  IN /\ \A idx \in 0..(n - 1) :
          /\ param(idx)[1] * q = units(idx) * param(idx)[2]
          /\ units(idx) = (sim.leaderParam * n + idx * LoopUnits) % q
     /\ \A i, j \in 0..(n - 1) : i # j => units(i) # units(j)
     /\ \A idx \in 0..(n - 1) :
          (units((idx + 1) % n) - units(idx)) % q = LoopUnits % q
     /\ sim.elapsed = 0
          => \A idx \in 0..(n - 1) : param(idx) = <<idx, n>>

\* two drones left after attrition, half a loop apart, the leader past 0
C19_Witness ==
  /\ lastCall.op = "simTick"
  /\ sim.attritionApplied /\ Len(world.drones) = 2
  /\ sim.leaderParam # 0
  /\ world.drones[2].pathParam
       = <<(sim.leaderParam + LoopUnits \div 2) % LoopUnits, LoopUnits>>

C21_IdleTickKeepsWorld ==
  [][(/\ lastCall'.op = "simTick"
      /\ \/ lastCall'.dt <= 0
         \/ Len(sim.path) < 3
         \/ \A i, j \in 1..Len(sim.path) : sim.path[i] = sim.path[j]
         \/ Len(world.drones) = 0)
       => /\ world' = world /\ worldRef' = world /\ sim' = sim
          /\ \A i \in 1..Len(world'.drones) :
               /\ world'.drones[i].position = world.drones[i].position
               /\ world'.drones[i].pathParam = world.drones[i].pathParam
               /\ world'.drones[i].position \notin {NoPoint, <<0, 0>>}]_vars

\* a tick of positive dt over a path of zero perimeter held the drones that
\* earlier ticks had placed on a loop
C21_Witness ==
  /\ lastCall.op = "simTick" /\ lastCall.dt > 0
  /\ Len(sim.path) = 3 /\ sim.totalLength = 0
  /\ sim.elapsed > 0 /\ Len(world.drones) >= 2
  /\ world.drones[2].pathParam[2] = LoopUnits
  /\ world.drones[2].position # world.drones[1].position

\* C22: in every state the cached segment lengths and the cached total are
\* those of the current path: one length per edge of a path of at least 3
\* vertices, vertex i to vertex (i + 1) mod n, their sum the total; no
\* lengths and the total 0 for a shorter path.
C22_CachesMatchPath ==
  LET n == Len(sim.path)
  IN /\ sim.totalLength = Sum(sim.segmentLengths)
     /\ IF n < 3 THEN sim.segmentLengths = <<>>
        ELSE /\ Len(sim.segmentLengths) = n
             /\ \A i \in 1..n :
                  sim.segmentLengths[i] = Dist(sim.path[i], sim.path[(i % n) + 1])

\* the longer loop replaced the shorter one while a drone stood on a side
\* only the shorter one has
C22_Witness ==
  /\ lastCall.op = "setPath" /\ lastCall.prev = "simTick"
  /\ sim.path = Rectangle(72, 24) /\ sim.totalLength = 192
  /\ \E i \in 1..Len(world.drones) :
       /\ world.drones[i].position[1] = BaseLng + 24
       /\ world.drones[i].position[2] > BaseLat
       /\ world.drones[i].position[2] < BaseLat + 24

(***************************************************************************)
(* Properties of the component's world reference, selection, event log and *)
(* interval timer.                                                         *)
(***************************************************************************)
\* C23: whenever engineRef holds an engine, between callbacks, the engine's
\* world is worldRef.current; the engine the load handler created holds the
\* snapshot of the handler that completed last before the load, and the
\* initial world when none did.
C23_EngineHoldsWorldRef ==
  /\ engineRef => world = worldRef
  /\ (engineRef /\ lastCall.op = "load")
       => /\ holder # 0 => world = dtoToWorldState(received)
          /\ holder = 0 => world \in InitialWorlds

\* the load handler ran after a response had delivered two drones, and its
\* first update pushed them
C23_Witness ==
  /\ engineRef /\ lastCall.op = "load" /\ holder # 0
  /\ Len(received.drones) >= 2 /\ Len(world.drones) = Len(received.drones)
  /\ Len(sources["drones-source"].features) = Len(world.drones)

\* C24: the request whose snapshot worldRef and the engine hold is never
\* followed by a request issued before it: a handler that installs its
\* snapshot belongs to a request issued later than the holder.
C24_NoRollback ==
  [][/\ holder' >= holder
     /\ worldRef' # worldRef => holder' > holder]_vars

\* C25: a selectedDrone that is not null has the id selectedDroneId holds.
C25_SelectionConsistent ==
  ui.selectedDrone # Null => ui.selectedDrone.id = ui.selectedDroneId

\* C26: right after a poll handler ran to its end on a map that has the
\* highlight source, the source holds one point, at the position worldRef
\* has for the drone with the id selectedDroneId, when that drone is in
\* worldRef, and no feature otherwise.
C26_HighlightFollowsSelection ==
  (lastCall.op = "poll" /\ mapRef /\ getSource(Cur, "selected-drone"))
    => LET drone == findDrone(worldRef, ui.selectedDroneId)
       IN IF ui.selectedDroneId = NoId \/ drone = Null
          THEN sources["selected-drone"] = EmptyCollection
          ELSE /\ Len(sources["selected-drone"].features) = 1
               /\ sources["selected-drone"].features[1].geometry
                    = [type |-> "Point", coordinates |-> drone.position]
               /\ sources["selected-drone"].features[1].properties.id
                    = ui.selectedDroneId

\* C27: the event log holds at most LogLimit events, and holds them in the
\* order of their first receipt, none twice; the backend numbers its events
\* in that order, so the ids of the log increase.
C27_EventLogBoundedOrdered ==
  /\ Len(ui.eventLog) <= LogLimit
  /\ \A i, j \in 1..Len(ui.eventLog) :
       i < j => ui.eventLog[i].id < ui.eventLog[j].id

\* C28: at most one interval is set at any time: the one whose id pollingRef
\* holds while the effects are mounted, none before the mount and none
\* after the cleanups, however often the effects are run again.
C28_OneIntervalTimer ==
  /\ Cardinality(timers) <= 1
  /\ phase = "mounted" => timers = {pollingRef}
  /\ phase # "mounted" => timers = {}

\* the effects were run a second time and cleaned up again
C28_Witness ==
  /\ phase = "cleaned" /\ lastCall.op = "cleanup"
  /\ pollingRef >= 2 /\ timers = {}

====
